---------------------------- MODULE Spec2Model ----------------------------
(***************************************************************************)
(* Model of CoffeeOrderBuilder and CoffeeOrder (src/main.py).              *)
(*                                                                         *)
(* The state is one builder object (its six fields), the call that was     *)
(* made last together with what it returned or raised, and the Orders the  *)
(* caller still holds.  Every method of the builder is one action.         *)
(* syrupsBefore is a history variable: the syrups as they were when the    *)
(* last call was made.                                                     *)
(*                                                                         *)
(* Prices are floats in the source.  Every multiplier has one decimal      *)
(* digit and every other price is a whole number, so the model keeps       *)
(* prices in tenths (PriceScale); all catalog products are exact at that   *)
(* scale (e.g. 320 * 1.4 = 448.0).                                         *)
(***************************************************************************)
EXTENDS Integers, Sequences, FiniteSets, TLC

VARIABLES base, size, milk, syrups, sugar, iced, lastCall, result, orders, syrupsBefore

config == <<base, size, milk, syrups, sugar, iced>>
vars == <<base, size, milk, syrups, sugar, iced, lastCall, result, orders, syrupsBefore>>

-----------------------------------------------------------------------------
(* Class constants                                                         *)

None == "<None>"

PriceScale == 10

BASE_PRICES == [espresso |-> 200, americano |-> 250, latte |-> 300, cappuccino |-> 320]

\* 1.0, 1.2, 1.4 in tenths
SIZE_MULTIPLIERS == [small |-> 10, medium |-> 12, large |-> 14]

MILK_PRICES == [none |-> 0, whole |-> 30, skim |-> 30, oat |-> 60, soy |-> 50]

SYRUP_PRICE == 40

ICED_PRICE == 20

MAX_SYRUPS == 4

SUGAR_RANGE == <<0, 5>>

VALID_BASES == DOMAIN BASE_PRICES

VALID_SIZES == DOMAIN SIZE_MULTIPLIERS

VALID_MILKS == DOMAIN MILK_PRICES

-----------------------------------------------------------------------------
(* Bounds and the arguments the callers pass                               *)

\* how many Orders the caller keeps references to
MaxOrders == 1

\* how many different syrup names callers use (more than MAX_SYRUPS)
NumSyrupNames == 5

SyrupNames == <<"caramel", "chocolate", "cinnamon", "mint", "vanilla", "almond", "cherry">>

\* the code points of each name, as Python's str comparison sees them
CodePoints ==
    [caramel   |-> <<99, 97, 114, 97, 109, 101, 108>>,
     chocolate |-> <<99, 104, 111, 99, 111, 108, 97, 116, 101>>,
     cinnamon  |-> <<99, 105, 110, 110, 97, 109, 111, 110>>,
     mint      |-> <<109, 105, 110, 116>>,
     vanilla   |-> <<118, 97, 110, 105, 108, 108, 97>>,
     almond    |-> <<97, 108, 109, 111, 110, 100>>,
     cherry    |-> <<99, 104, 101, 114, 114, 121>>]

Min(a, b) == IF a < b THEN a ELSE b

SyrupArgs == {SyrupNames[i] : i \in 1..Min(NumSyrupNames, Len(SyrupNames))}

BaseArgs == VALID_BASES \cup {"mocha"}

SizeArgs == VALID_SIZES \cup {"huge"}

MilkArgs == VALID_MILKS \cup {"almond"}

SugarArgs == (SUGAR_RANGE[1] - 1)..(SUGAR_RANGE[2] + 1)

IcedArgs == BOOLEAN

\* the smaller argument sets of the specification that keeps Orders
ReuseBaseArgs == {"latte", "americano", "mocha"}

ReuseSizeArgs == {"medium"}

ReuseMilkArgs == {"oat"}

ReuseSyrupArgs == {"caramel"}

ReuseSugarArgs == {2}

-----------------------------------------------------------------------------
(* What a call gives back                                                  *)

\* `return self`
Self == [kind |-> "self"]

\* `raise ValueError(msg)`; the text of the message is msg followed by the
\* repr of `allowed` when that is not empty (the order in which a Python set
\* prints its members is not fixed, so the set itself is kept)
Raise(msg, allowed) == [kind |-> "raise", exc |-> "ValueError", msg |-> msg, allowed |-> allowed]

Returned(order) == [kind |-> "order", order |-> order]

Call(op, args) == [op |-> op, args |-> args]

-----------------------------------------------------------------------------
(* str comparison, sorted() and str.join()                                 *)

LexLess(a, b) ==
    \E k \in 1..(Min(Len(a), Len(b)) + 1) :
        /\ \A i \in 1..(k - 1) : a[i] = b[i]
        /\ \/ k = Len(a) + 1 /\ k <= Len(b)
           \/ k <= Len(a) /\ k <= Len(b) /\ a[k] < b[k]

StrLess(s, t) == LexLess(CodePoints[s], CodePoints[t])

\* variant: sorts the names in descending order
RECURSIVE Sorted_Descending(_)
Sorted_Descending(S) ==
    IF S = {} THEN <<>>
    ELSE LET m == CHOOSE x \in S : \A y \in S \ {x} : StrLess(y, x)
         IN  <<m>> \o Sorted_Descending(S \ {m})

RECURSIVE Sorted(_)
Sorted(S) ==
    IF S = {} THEN <<>>
    ELSE LET m == CHOOSE x \in S : \A y \in S \ {x} : StrLess(x, y)
         IN  <<m>> \o Sorted(S \ {m})

RECURSIVE Join(_, _)
Join(sep, seq) ==
    IF seq = <<>> THEN ""
    ELSE IF Len(seq) = 1 THEN seq[1]
    ELSE seq[1] \o sep \o Join(sep, Tail(seq))

-----------------------------------------------------------------------------
(* build(): price, description, CoffeeOrder                                *)

\* variant: the size multiplier is applied after the milk price was added
Price_MilkScaled(b, s, m, syr, ic) ==
    LET p1 == (BASE_PRICES[b] + MILK_PRICES[m]) * SIZE_MULTIPLIERS[s]
        p3 == p1 + Cardinality(syr) * SYRUP_PRICE * PriceScale
    IN  IF ic THEN p3 + ICED_PRICE * PriceScale ELSE p3

Price(b, s, m, syr, ic) ==
    LET p1 == BASE_PRICES[b] * SIZE_MULTIPLIERS[s]
        p2 == p1 + MILK_PRICES[m] * PriceScale
        p3 == p2 + Cardinality(syr) * SYRUP_PRICE * PriceScale
    IN  IF ic THEN p3 + ICED_PRICE * PriceScale ELSE p3

Description(b, s, m, syr, sug, ic) ==
    LET d1 == s \o " " \o b
        d2 == IF m # "none" THEN d1 \o " with " \o m \o " milk" ELSE d1
        d3 == IF syr # {} THEN d2 \o " + " \o Join(", ", Sorted(syr)) ELSE d2
        d4 == IF ic THEN d3 \o " (iced)" ELSE d3
    IN  IF sug > 0 THEN d4 \o " " \o ToString(sug) \o " tsp sugar" ELSE d4

CoffeeOrder(b, s, m, syr, sug, ic) ==
    [base |-> b, size |-> s, milk |-> m, syrups |-> Sorted(syr), sugar |-> sug,
     iced |-> ic, price |-> Price(b, s, m, syr, ic),
     description |-> Description(b, s, m, syr, sug, ic)]

-----------------------------------------------------------------------------
(* The builder                                                             *)

Init ==
    /\ base = None
    /\ size = None
    /\ milk = "none"
    /\ syrups = {}
    /\ sugar = 0
    /\ iced = FALSE
    /\ lastCall = Call("__init__", <<>>)
    /\ syrupsBefore = {}
    /\ result = Self
    /\ orders = <<>>

\* variant: reset() forgets the milk
reset_KeepMilk ==
    /\ base' = None
    /\ size' = None
    /\ syrups' = {}
    /\ sugar' = 0
    /\ iced' = FALSE
    /\ lastCall' = Call("reset", <<>>)
    /\ syrupsBefore' = syrups
    /\ result' = Self
    /\ UNCHANGED <<milk, orders>>

reset ==
    /\ base' = None
    /\ size' = None
    /\ milk' = "none"
    /\ syrups' = {}
    /\ sugar' = 0
    /\ iced' = FALSE
    /\ lastCall' = Call("reset", <<>>)
    /\ syrupsBefore' = syrups
    /\ result' = Self
    /\ UNCHANGED orders

set_base(b) ==
    /\ lastCall' = Call("set_base", <<b>>)
    /\ syrupsBefore' = syrups
    /\ IF b \notin VALID_BASES
       THEN /\ result' = Raise("Invalid base: " \o b \o ". Allowed: ", VALID_BASES)
            /\ UNCHANGED base
       ELSE /\ base' = b
            /\ result' = Self
    /\ UNCHANGED <<size, milk, syrups, sugar, iced, orders>>

set_size(s) ==
    /\ lastCall' = Call("set_size", <<s>>)
    /\ syrupsBefore' = syrups
    /\ IF s \notin VALID_SIZES
       THEN /\ result' = Raise("Invalid size: " \o s \o ". Allowed: ", VALID_SIZES)
            /\ UNCHANGED size
       ELSE /\ size' = s
            /\ result' = Self
    /\ UNCHANGED <<base, milk, syrups, sugar, iced, orders>>

set_milk(m) ==
    /\ lastCall' = Call("set_milk", <<m>>)
    /\ syrupsBefore' = syrups
    /\ IF m \notin VALID_MILKS
       THEN /\ result' = Raise("Invalid milk: " \o m \o ". Allowed: ", VALID_MILKS)
            /\ UNCHANGED milk
       ELSE /\ milk' = m
            /\ result' = Self
    /\ UNCHANGED <<base, size, syrups, sugar, iced, orders>>

\* variant: the capacity test is off by one (> instead of >=)
add_syrup_OffByOne(syrup_name) ==
    /\ lastCall' = Call("add_syrup", <<syrup_name>>)
    /\ syrupsBefore' = syrups
    /\ IF Cardinality(syrups) > MAX_SYRUPS
       THEN UNCHANGED syrups
       ELSE syrups' = syrups \cup {syrup_name}
    /\ result' = Self
    /\ UNCHANGED <<base, size, milk, sugar, iced, orders>>

\* variant: a name that is already selected is taken out again
add_syrup_Toggle(syrup_name) ==
    /\ lastCall' = Call("add_syrup", <<syrup_name>>)
    /\ syrupsBefore' = syrups
    /\ IF Cardinality(syrups) >= MAX_SYRUPS
       THEN UNCHANGED syrups
       ELSE syrups' = IF syrup_name \in syrups THEN syrups \ {syrup_name}
                      ELSE syrups \cup {syrup_name}
    /\ result' = Self
    /\ UNCHANGED <<base, size, milk, sugar, iced, orders>>

add_syrup(syrup_name) ==
    /\ lastCall' = Call("add_syrup", <<syrup_name>>)
    /\ syrupsBefore' = syrups
    /\ IF Cardinality(syrups) >= MAX_SYRUPS
       THEN UNCHANGED syrups
       ELSE syrups' = syrups \cup {syrup_name}
    /\ result' = Self
    /\ UNCHANGED <<base, size, milk, sugar, iced, orders>>

\* variant: the value is stored before it is validated
set_sugar_StoreFirst(teaspoons) ==
    /\ lastCall' = Call("set_sugar", <<teaspoons>>)
    /\ syrupsBefore' = syrups
    /\ sugar' = teaspoons
    /\ IF ~(SUGAR_RANGE[1] <= teaspoons /\ teaspoons <= SUGAR_RANGE[2])
       THEN result' = Raise("Sugar must be between " \o ToString(SUGAR_RANGE[1]) \o " and "
                               \o ToString(SUGAR_RANGE[2]) \o " teaspoons", {})
       ELSE result' = Self
    /\ UNCHANGED <<base, size, milk, syrups, iced, orders>>

set_sugar(teaspoons) ==
    /\ lastCall' = Call("set_sugar", <<teaspoons>>)
    /\ syrupsBefore' = syrups
    /\ IF ~(SUGAR_RANGE[1] <= teaspoons /\ teaspoons <= SUGAR_RANGE[2])
       THEN /\ result' = Raise("Sugar must be between " \o ToString(SUGAR_RANGE[1]) \o " and "
                                  \o ToString(SUGAR_RANGE[2]) \o " teaspoons", {})
            /\ UNCHANGED sugar
       ELSE /\ sugar' = teaspoons
            /\ result' = Self
    /\ UNCHANGED <<base, size, milk, syrups, iced, orders>>

set_iced(flag) ==
    /\ lastCall' = Call("set_iced", <<flag>>)
    /\ syrupsBefore' = syrups
    /\ iced' = flag
    /\ result' = Self
    /\ UNCHANGED <<base, size, milk, syrups, sugar, orders>>

\* variant: clear_extras() forgets the iced flag
clear_extras_KeepIced ==
    /\ lastCall' = Call("clear_extras", <<>>)
    /\ syrupsBefore' = syrups
    /\ milk' = "none"
    /\ syrups' = {}
    /\ sugar' = 0
    /\ result' = Self
    /\ UNCHANGED <<base, size, iced, orders>>

clear_extras ==
    /\ lastCall' = Call("clear_extras", <<>>)
    /\ syrupsBefore' = syrups
    /\ milk' = "none"
    /\ syrups' = {}
    /\ sugar' = 0
    /\ iced' = FALSE
    /\ result' = Self
    /\ UNCHANGED <<base, size, orders>>

\* variant: one Order object is reused, so every Order handed out earlier
\* shows the values of the newest one
build_SharedOrder ==
    /\ lastCall' = Call("build", <<>>)
    /\ syrupsBefore' = syrups
    /\ IF base = None
       THEN result' = Raise("Base must be set", {}) /\ UNCHANGED orders
       ELSE IF size = None
       THEN result' = Raise("Size must be set", {}) /\ UNCHANGED orders
       ELSE /\ result' = Returned(CoffeeOrder(base, size, milk, syrups, sugar, iced))
            /\ orders' = [i \in DOMAIN orders |->
                             CoffeeOrder(base, size, milk, syrups, sugar, iced)]
    /\ UNCHANGED <<base, size, milk, syrups, sugar, iced>>

\* variant: size is tested before base
build_SizeFirst ==
    /\ lastCall' = Call("build", <<>>)
    /\ syrupsBefore' = syrups
    /\ IF size = None
       THEN result' = Raise("Size must be set", {})
       ELSE IF base = None
       THEN result' = Raise("Base must be set", {})
       ELSE result' = Returned(CoffeeOrder(base, size, milk, syrups, sugar, iced))
    /\ UNCHANGED <<base, size, milk, syrups, sugar, iced, orders>>

\* variant: a successful build() resets the builder
build_ThenReset ==
    /\ lastCall' = Call("build", <<>>)
    /\ syrupsBefore' = syrups
    /\ IF base = None
       THEN result' = Raise("Base must be set", {}) /\ UNCHANGED config
       ELSE IF size = None
       THEN result' = Raise("Size must be set", {}) /\ UNCHANGED config
       ELSE /\ result' = Returned(CoffeeOrder(base, size, milk, syrups, sugar, iced))
            /\ base' = None
            /\ size' = None
            /\ milk' = "none"
            /\ syrups' = {}
            /\ sugar' = 0
            /\ iced' = FALSE
    /\ UNCHANGED orders

build ==
    /\ lastCall' = Call("build", <<>>)
    /\ syrupsBefore' = syrups
    /\ IF base = None
       THEN result' = Raise("Base must be set", {})
       ELSE IF size = None
       THEN result' = Raise("Size must be set", {})
       ELSE result' = Returned(CoffeeOrder(base, size, milk, syrups, sugar, iced))
    /\ UNCHANGED <<base, size, milk, syrups, sugar, iced, orders>>

\* the caller keeps the Order that build() has just returned
keep ==
    /\ result.kind = "order"
    /\ Len(orders) < MaxOrders
    /\ orders' = Append(orders, result.order)
    /\ UNCHANGED <<base, size, milk, syrups, sugar, iced, lastCall, result, syrupsBefore>>

Next ==
    \/ reset
    \/ \E b \in BaseArgs : set_base(b)
    \/ \E s \in SizeArgs : set_size(s)
    \/ \E m \in MilkArgs : set_milk(m)
    \/ \E n \in SyrupArgs : add_syrup(n)
    \/ \E t \in SugarArgs : set_sugar(t)
    \/ \E f \in IcedArgs : set_iced(f)
    \/ clear_extras
    \/ build

Spec == Init /\ [][Next]_vars

NextReuse ==
    \/ reset
    \/ \E b \in ReuseBaseArgs : set_base(b)
    \/ \E s \in ReuseSizeArgs : set_size(s)
    \/ \E m \in ReuseMilkArgs : set_milk(m)
    \/ \E n \in ReuseSyrupArgs : add_syrup(n)
    \/ \E t \in ReuseSugarArgs : set_sugar(t)
    \/ \E f \in IcedArgs : set_iced(f)
    \/ clear_extras
    \/ build
    \/ keep

SpecReuse == Init /\ [][NextReuse]_vars

-----------------------------------------------------------------------------
(* Properties                                                              *)

BuildSucceeded == lastCall.op = "build" /\ result.kind = "order"

\* the fields of the builder that an error message of build() names
NamedFields(msg) ==
    CASE msg = "Base must be set" -> {"base"}
      [] msg = "Size must be set" -> {"size"}
      [] OTHER -> {}

\* C1: whenever build() is called with base and size set it returns an Order
\* whose price is basePrice * sizeMultiplier + milkPrice + 40 per distinct
\* syrup + 20 if iced (in tenths); sugar has no part in it.
C1_PriceFormula ==
    (lastCall.op = "build" /\ base # None /\ size # None) =>
        /\ result.kind = "order"
        /\ result.order.price =
               BASE_PRICES[base] * SIZE_MULTIPLIERS[size]
               + 10 * (MILK_PRICES[milk] + Cardinality(syrups) * 40
                       + (IF iced THEN 20 ELSE 0))

\* scenario 1 of the tests: 300 * 1.2 + 60 + 40 + 20 = 480.0
C1_Witness ==
    /\ BuildSucceeded
    /\ base = "latte" /\ size = "medium" /\ milk = "oat"
    /\ syrups = {"vanilla"} /\ sugar = 2 /\ iced
    /\ result.order.price = 4800

\* C2: an Order the caller holds is never changed by a later call on the
\* builder: every step leaves each held Order equal, in every field, to what
\* it was.
C2_OrdersImmutable ==
    [][/\ Len(orders') >= Len(orders)
       /\ \A i \in 1..Len(orders) : orders'[i] = orders[i]]_vars

\* an Order is held, the builder was changed in every field and built again
C2_Witness ==
    /\ Len(orders) >= 1
    /\ BuildSucceeded
    /\ orders[1].base # result.order.base
    /\ orders[1].milk # result.order.milk
    /\ orders[1].syrups # result.order.syrups
    /\ orders[1].sugar # result.order.sugar
    /\ orders[1].iced # result.order.iced
    /\ orders[1].price # result.order.price
    /\ orders[1].description # result.order.description

\* C3 as stated: build() raises exactly when base or size is absent, and
\* the error names base when base is absent and names size when size is
\* absent, also when both are absent.
C3_AsStated ==
    lastCall.op = "build" =>
        /\ (base = None \/ size = None) <=> result.kind = "raise"
        /\ (base # None /\ size # None) => result.kind = "order"
        /\ base = None => "base" \in NamedFields(result.msg)
        /\ size = None => "size" \in NamedFields(result.msg)

\* C3 as amended: build() raises exactly when base or size is absent and
\* otherwise returns an Order; the error names base when base is absent, and
\* names size when size is absent and base is set.  With both absent it
\* names base alone.
C3_MissingField ==
    lastCall.op = "build" =>
        /\ (base = None \/ size = None) <=> result.kind = "raise"
        /\ (base # None /\ size # None) => result.kind = "order"
        /\ base = None => NamedFields(result.msg) = {"base"}
        /\ (size = None /\ base # None) => NamedFields(result.msg) = {"size"}

C3_Witness ==
    /\ lastCall.op = "build"
    /\ base = None /\ size = None
    /\ result.kind = "raise"

\* C4: add_syrup never raises, the builder never holds more than 4 syrups,
\* and add_syrup on a builder that holds 4 leaves every field as it was.
C4_SyrupCap ==
    /\ [](/\ Cardinality(syrups) <= 4
          /\ lastCall.op = "add_syrup" => result.kind = "self")
    /\ [][(lastCall'.op = "add_syrup" /\ Cardinality(syrups) = 4)
              => config' = config]_vars

\* add_syrup with a fifth name on a full builder
C4_Witness ==
    /\ lastCall.op = "add_syrup"
    /\ Cardinality(syrups) = 4
    /\ Cardinality(syrupsBefore) = 4
    /\ lastCall.args[1] \notin syrupsBefore
    /\ syrups = syrupsBefore
    /\ result.kind = "self"

\* C5: add_syrup of a name already selected leaves the syrups as they were;
\* add_syrup of a new name on a builder with fewer than 4 syrups adds it, so
\* a repeated name uses up no capacity; and an Order is charged 40 for each
\* distinct syrup.
C5_AddSyrupIdempotent ==
    /\ [][lastCall'.op = "add_syrup" =>
            LET name == lastCall'.args[1] IN
            /\ name \in syrups => config' = config
            /\ (name \notin syrups /\ Cardinality(syrups) < 4) =>
                   /\ syrups' = syrups \cup {name}
                   /\ Cardinality(syrups') = Cardinality(syrups) + 1]_vars
    /\ [](BuildSucceeded =>
            /\ Len(result.order.syrups) = Cardinality(syrups)
            /\ result.order.price =
                   BASE_PRICES[base] * SIZE_MULTIPLIERS[size]
                   + 10 * (MILK_PRICES[milk] + 40 * Len(result.order.syrups)
                           + (IF iced THEN 20 ELSE 0)))

\* the same name was added a second time and the builder holds it once
C5_Witness ==
    /\ lastCall.op = "add_syrup"
    /\ lastCall.args[1] = "chocolate"
    /\ syrupsBefore = {"chocolate"}
    /\ syrups = {"chocolate"}
    /\ base = "cappuccino" /\ size = "small"

\* C6: set_base, set_size, set_milk and set_sugar raise exactly when the
\* argument is outside the base, size or milk catalog or outside 0..5; a
\* call that raises leaves every field as it was, one that does not stores
\* the argument in its field.
C6_SetterStep(op, valid, stored) ==
    lastCall'.op = op =>
        LET a == lastCall'.args[1] IN
        /\ result'.kind = "raise" <=> a \notin valid
        /\ result'.kind = "raise" => config' = config
        /\ result'.kind # "raise" => (result'.kind = "self" /\ stored = a)

C6_Setters ==
    [][/\ C6_SetterStep("set_base", VALID_BASES, base')
       /\ C6_SetterStep("set_size", VALID_SIZES, size')
       /\ C6_SetterStep("set_milk", VALID_MILKS, milk')
       /\ C6_SetterStep("set_sugar", 0..5, sugar')]_vars

\* set_sugar(6) was refused on a builder whose fields are all set
C6_Witness ==
    /\ lastCall.op = "set_sugar"
    /\ lastCall.args[1] = 6
    /\ result.kind = "raise"
    /\ sugar = 3 /\ base = "latte" /\ size = "large" /\ milk = "soy"
    /\ syrups # {} /\ iced

\* C7: clear_extras never raises, leaves base and size as they were and
\* sets milk to "none", syrups to the empty set, sugar to 0, iced to false.
C7_ClearExtras ==
    [][lastCall'.op = "clear_extras" =>
          /\ result'.kind = "self"
          /\ base' = base /\ size' = size
          /\ milk' = "none" /\ syrups' = {} /\ sugar' = 0 /\ iced' = FALSE]_vars

C7_Witness ==
    /\ lastCall.op = "clear_extras"
    /\ base = "americano" /\ size = "large"
    /\ Cardinality(syrupsBefore) = 4
    /\ milk = "none" /\ syrups = {} /\ sugar = 0 /\ ~iced

\* C8: the description of a built Order is "<size> <base>", then
\* " with <milk> milk" iff milk is not "none", then " + " and the sorted
\* names joined by ", " iff a syrup is selected, then " (iced)" iff iced,
\* then " <sugar> tsp sugar" iff sugar > 0; the syrups of the Order are the
\* builder's syrups in strictly ascending lexicographic order.
C8_Description ==
    BuildSucceeded =>
        LET o == result.order
            names == o.syrups
        IN  /\ \A i \in 1..Len(names) : \A j \in 1..Len(names) :
                   i < j => StrLess(names[i], names[j])
            /\ {names[i] : i \in 1..Len(names)} = syrups
            /\ o.description =
                   Join("", << size \o " " \o base,
                               IF milk # "none" THEN " with " \o milk \o " milk" ELSE "",
                               IF syrups # {} THEN " + " \o Join(", ", names) ELSE "",
                               IF iced THEN " (iced)" ELSE "",
                               IF sugar > 0 THEN " " \o ToString(sugar) \o " tsp sugar"
                               ELSE "" >>)

\* every clause present, three syrups added out of order
C8_Witness ==
    /\ BuildSucceeded
    /\ syrups = {"vanilla", "caramel", "chocolate"}
    /\ result.order.syrups = <<"caramel", "chocolate", "vanilla">>
    /\ result.order.description =
           "medium latte with oat milk + caramel, chocolate, vanilla (iced) 2 tsp sugar"

\* C9: build(), whether it returns or raises, leaves every field of the
\* builder as it was, and a build() that directly follows a build() gives
\* the same result.
C9_BuildPure ==
    [][lastCall'.op = "build" =>
          /\ config' = config
          /\ lastCall.op = "build" => result' = result]_vars

\* build() has returned an Order from a builder none of whose fields has the
\* default value
C9_Witness ==
    /\ BuildSucceeded
    /\ milk # "none" /\ syrups # {} /\ sugar > 0 /\ iced
    /\ result.order.milk = milk /\ result.order.sugar = sugar

\* C10: base is absent or in the base catalog, size is absent or in the size
\* catalog, milk is in the milk catalog, sugar is an integer in 0..5, iced
\* is a boolean; a new builder and a builder just after reset() have base
\* and size absent, milk "none", no syrups, sugar 0 and iced false.
C10_FieldsValid ==
    /\ base = None \/ base \in {"espresso", "americano", "latte", "cappuccino"}
    /\ size = None \/ size \in {"small", "medium", "large"}
    /\ milk \in {"none", "whole", "skim", "oat", "soy"}
    /\ sugar \in 0..5
    /\ iced \in BOOLEAN
    /\ lastCall.op \in {"__init__", "reset"} =>
           /\ base = None /\ size = None /\ milk = "none"
           /\ syrups = {} /\ sugar = 0 /\ iced = FALSE

\* set_milk of a name outside the catalog was refused on a configured builder
C10_Witness ==
    /\ lastCall.op = "set_milk"
    /\ result.kind = "raise"
    /\ milk = "soy" /\ base = "espresso" /\ size = "small" /\ sugar = 5

=============================================================================
